---- MODULE Spec2Model ----
(***************************************************************************)
(* Primitive DB: the schema registry (metadata), the per-table record      *)
(* documents (data/<table>.json), the core operations of core.py and the   *)
(* command loop of engine.py with the schema document db_meta.json.        *)
(*                                                                         *)
(* Texts (command arguments, column specs, str values) are sequences of    *)
(* one-character strings, so that strip, split and int() are computed,     *)
(* not assumed.  Table names are opaque strings: the core never parses     *)
(* them.                                                                   *)
(***************************************************************************)
EXTENDS Integers, Sequences, FiniteSets, TLC

VARIABLES metadata, storage, last_id, res, pc, schema_file, log

vars == <<metadata, storage, last_id, res, pc, schema_file, log>>

(***************************************************************************)
(* Bounds of the model.                                                    *)
(***************************************************************************)
\* records one record document may hold before insert is no longer tried
MaxRecords == 2
\* largest ID an insert may assign before insert is no longer tried
MaxId == 2
\* longest run of blanks and quotes put before and after a word given to
\* parse_value
MaxWrap == 2
\* commands of a session on the table users before no more is read
MaxCommands == 6

(***************************************************************************)
(* Texts.                                                                  *)
(***************************************************************************)
Whitespace == {" "}
Digits == {"0", "1", "2", "3", "4", "5", "6", "7", "8", "9"}

t_ID == <<"I", "D">>
t_x == <<"x">>
t_y == <<"y">>
t_int == <<"i", "n", "t">>
t_str == <<"s", "t", "r">>
t_bool == <<"b", "o", "o", "l">>
t_float == <<"f", "l", "o", "a", "t">>

\* str.lower() on the characters the model uses.  A Cyrillic letter is written
\* as the string "cyr_" and its transliteration, its capital as "CYR_" and the
\* capital transliteration.
LowerChar(c) ==
    CASE c = "T" -> "t" [] c = "R" -> "r" [] c = "U" -> "u" [] c = "E" -> "e"
      [] c = "F" -> "f" [] c = "A" -> "a" [] c = "L" -> "l" [] c = "S" -> "s"
      [] c = "Y" -> "y" [] c = "N" -> "n" [] c = "O" -> "o"
      [] c = "CYR_D" -> "cyr_d" [] c = "CYR_A" -> "cyr_a" [] c = "CYR_I" -> "cyr_i"
      [] c = "CYR_S" -> "cyr_s" [] c = "CYR_T" -> "cyr_t" [] c = "CYR_N" -> "cyr_n"
      [] c = "CYR_E" -> "cyr_e" [] c = "CYR_L" -> "cyr_l" [] c = "CYR_O" -> "cyr_o"
      [] c = "CYR_ZH" -> "cyr_zh"
      [] OTHER -> c

lower(s) == [i \in 1..Len(s) |-> LowerChar(s[i])]

\* str.strip(chars): drop every leading and trailing character that is in chars
RECURSIVE lstrip(_, _)
lstrip(s, chars) ==
    IF s # <<>> /\ Head(s) \in chars THEN lstrip(Tail(s), chars) ELSE s

RECURSIVE rstrip(_, _)
rstrip(s, chars) ==
    IF s # <<>> /\ s[Len(s)] \in chars
    THEN rstrip(SubSeq(s, 1, Len(s) - 1), chars)
    ELSE s

strip(s, chars) == rstrip(lstrip(s, chars), chars)

\* index of the first occurrence of c in s, 0 when there is none
RECURSIVE find(_, _, _)
find(s, c, i) ==
    IF i > Len(s) THEN 0
    ELSE IF s[i] = c THEN i
    ELSE find(s, c, i + 1)

DigitVal(c) ==
    CASE c = "0" -> 0 [] c = "1" -> 1 [] c = "2" -> 2 [] c = "3" -> 3
      [] c = "4" -> 4 [] c = "5" -> 5 [] c = "6" -> 6 [] c = "7" -> 7
      [] c = "8" -> 8 [] c = "9" -> 9

RECURSIVE DigitsVal(_)
DigitsVal(s) ==
    IF s = <<>> THEN 0
    ELSE 10 * DigitsVal(SubSeq(s, 1, Len(s) - 1)) + DigitVal(s[Len(s)])

\* int(text): surrounding whitespace, an optional sign, then decimal digits
py_int(s) ==
    LET b == strip(s, Whitespace)
        signed == b # <<>> /\ Head(b) \in {"-", "+"}
        d == IF signed THEN Tail(b) ELSE b
    IN  IF d # <<>> /\ \A i \in 1..Len(d) : d[i] \in Digits
        THEN [ok |-> TRUE,
              n |-> IF signed /\ Head(b) = "-" THEN 0 - DigitsVal(d) ELSE DigitsVal(d)]
        ELSE [ok |-> FALSE, n |-> 0]

(***************************************************************************)
(* Typed values of record fields (what json.dump and json.load keep        *)
(* apart: numbers, true/false, strings).                                   *)
(***************************************************************************)
IntV(n) == [k |-> "int", n |-> n, b |-> FALSE, s |-> <<>>]
BoolV(b) == [k |-> "bool", n |-> 0, b |-> b, s |-> <<>>]
StrV(s) == [k |-> "str", n |-> 0, b |-> FALSE, s |-> s]

IsNumber(v) == v.k \in {"int", "bool"}

\* the number a Python int or bool stands for (True is 1, False is 0)
Num(v) == IF v.k = "bool" THEN (IF v.b THEN 1 ELSE 0) ELSE v.n

\* Python's == between two field values
py_eq(a, b) ==
    IF IsNumber(a) /\ IsNumber(b) THEN Num(a) = Num(b)
    ELSE IF a.k = "str" /\ b.k = "str" THEN a.s = b.s
    ELSE FALSE

\* type(v) is the Python type the column type names
HasType(v, col_type) ==
    \/ col_type = t_int /\ v.k = "int"
    \/ col_type = t_str /\ v.k = "str"
    \/ col_type = t_bool /\ v.k = "bool"

(***************************************************************************)
(* core.py                                                                 *)
(***************************************************************************)
VALID_TYPES == {t_int, t_str, t_bool}

\* ('true', '1', 'yes', 'да', 'истина')
TRUE_WORDS ==
    { <<"t", "r", "u", "e">>, <<"1">>, <<"y", "e", "s">>,
      <<"cyr_d", "cyr_a">>,
      <<"cyr_i", "cyr_s", "cyr_t", "cyr_i", "cyr_n", "cyr_a">> }

\* ('false', '0', 'no', 'нет', 'ложь')
FALSE_WORDS ==
    { <<"f", "a", "l", "s", "e">>, <<"0">>, <<"n", "o">>,
      <<"cyr_n", "cyr_e", "cyr_t">>,
      <<"cyr_l", "cyr_o", "cyr_zh", "cyr_soft">> }

NoValue == StrV(<<>>)

parse_value(value_str, expected_type) ==
    LET v == strip(strip(strip(value_str, Whitespace), {"\""}), {"'"})
    IN  IF expected_type = t_int THEN
            IF py_int(v).ok
            THEN [err |-> "none", value |-> IntV(py_int(v).n)]
            ELSE [err |-> "CannotConvert", value |-> NoValue]
        ELSE IF expected_type = t_str THEN
            [err |-> "none", value |-> StrV(v)]
        ELSE IF expected_type = t_bool THEN
            IF lower(v) \in TRUE_WORDS THEN [err |-> "none", value |-> BoolV(TRUE)]
            ELSE IF lower(v) \in FALSE_WORDS THEN [err |-> "none", value |-> BoolV(FALSE)]
            ELSE [err |-> "CannotConvert", value |-> NoValue]
        ELSE [err |-> "UnknownType", value |-> NoValue]

\* a column definition {"name": ..., "type": ...}
Column(name, type) == [name |-> name, type |-> type]

ID_COLUMN == Column(t_ID, t_int)

\* the loop over the user's column specs without the test of the type
RECURSIVE parse_columns_any_type(_, _)
parse_columns_any_type(columns, parsed_columns) ==
    IF columns = <<>> THEN [err |-> "none", columns |-> parsed_columns]
    ELSE LET col == Head(columns)
             at == find(col, ":", 1)
             name == strip(SubSeq(col, 1, at - 1), Whitespace)
             col_type == strip(SubSeq(col, at + 1, Len(col)), Whitespace)
         IN  IF at = 0 THEN [err |-> "BadColumnFormat", columns |-> <<>>]
             ELSE parse_columns_any_type(Tail(columns),
                                         Append(parsed_columns, Column(name, col_type)))

\* the loop over the user's column specs: the first bad spec raises
RECURSIVE parse_columns(_, _)
parse_columns(columns, parsed_columns) ==
    IF columns = <<>> THEN [err |-> "none", columns |-> parsed_columns]
    ELSE LET col == Head(columns)
             at == find(col, ":", 1)
             name == strip(SubSeq(col, 1, at - 1), Whitespace)
             col_type == strip(SubSeq(col, at + 1, Len(col)), Whitespace)
         IN  IF at = 0 THEN [err |-> "BadColumnFormat", columns |-> <<>>]
             ELSE IF col_type \notin VALID_TYPES
             THEN [err |-> "InvalidType", columns |-> <<>>]
             ELSE parse_columns(Tail(columns),
                                Append(parsed_columns, Column(name, col_type)))

\* metadata[table_name] = value
SetEntry(md, table_name, value) ==
    [n \in DOMAIN md \cup {table_name} |-> IF n = table_name THEN value ELSE md[n]]

\* del metadata[table_name]
DelEntry(md, table_name) == [n \in DOMAIN md \ {table_name} |-> md[n]]

\* create_table without the check for an existing table: the entry is replaced
create_table_overwrite(md, table_name, columns) ==
    LET p == parse_columns(columns, <<ID_COLUMN>>)
    IN  IF p.err # "none" THEN [err |-> p.err, metadata |-> md]
        ELSE [err |-> "none",
              metadata |-> SetEntry(md, table_name, [columns |-> p.columns])]

create_table(md, table_name, columns) ==
    IF table_name \in DOMAIN md THEN [err |-> "TableExists", metadata |-> md]
    ELSE LET p == parse_columns(columns, <<ID_COLUMN>>)
         IN  IF p.err # "none" THEN [err |-> p.err, metadata |-> md]
             ELSE [err |-> "none",
                   metadata |-> SetEntry(md, table_name, [columns |-> p.columns])]

\* drop_table that forgets every registered table, not only the named one
drop_table_all(md, table_name) ==
    IF table_name \notin DOMAIN md THEN [err |-> "TableNotExists", metadata |-> md]
    ELSE [err |-> "none", metadata |-> [n \in {} |-> <<>>]]

drop_table(md, table_name) ==
    IF table_name \notin DOMAIN md THEN [err |-> "TableNotExists", metadata |-> md]
    ELSE [err |-> "none", metadata |-> DelEntry(md, table_name)]

(***************************************************************************)
(* utils.py: the record documents data/<table>.json.  storage maps the     *)
(* names of the files that exist to their content; json.dump followed by   *)
(* json.load gives back the same list of flat records of numbers,          *)
(* booleans and strings.                                                   *)
(***************************************************************************)
\* db_meta.json when it does not exist
NoFile == [exists |-> FALSE, doc |-> [n \in {} |-> <<>>]]

\* load_metadata: the document, or {} when the file is not found
load_metadata(file) == IF file.exists THEN file.doc ELSE [n \in {} |-> <<>>]

\* save_metadata that writes nothing
save_metadata_skipped(file, data) == file

\* save_metadata: the file holds the registry as it is now
save_metadata(file, data) == [exists |-> TRUE, doc |-> data]


load_table_data(st, table_name) ==
    IF table_name \in DOMAIN st THEN st[table_name] ELSE <<>>

save_table_data(st, table_name, data) ==
    [n \in DOMAIN st \cup {table_name} |-> IF n = table_name THEN data ELSE st[n]]

(***************************************************************************)
(* Records: dicts from column name to value.                               *)
(***************************************************************************)
\* record.get(key) == value  (a missing key gives None, equal to no value)
get_eq(record, key, value) == key \in DOMAIN record /\ py_eq(record[key], value)

\* record.get(key, '')
get_or_empty(record, key) == IF key \in DOMAIN record THEN record[key] ELSE StrV(<<>>)

\* record[key] = value
SetField(record, key, value) ==
    [c \in DOMAIN record \cup {key} |-> IF c = key THEN value ELSE record[c]]

\* the type of the first column named name (the loops that break), <<>> for None
RECURSIVE first_type(_, _)
first_type(columns, name) ==
    IF columns = <<>> THEN <<>>
    ELSE IF Head(columns).name = name THEN Head(columns).type
    ELSE first_type(Tail(columns), name)

\* the type of the last column named name (the loop without break), <<>> for None
RECURSIVE last_type(_, _)
last_type(columns, name) ==
    IF columns = <<>> THEN <<>>
    ELSE IF columns[Len(columns)].name = name THEN columns[Len(columns)].type
    ELSE last_type(SubSeq(columns, 1, Len(columns) - 1), name)

IdsOf(data) == [i \in 1..Len(data) |-> data[i][t_ID]]

\* optional arguments: None, or a text
None == [some |-> FALSE, v |-> <<>>]
Some(text) == [some |-> TRUE, v |-> text]

\* Python's truth value of an optional text: None and '' are false
Truthy(o) == o.some /\ o.v # <<>>

\* max(record['ID'] for record in data) + 1: numbers compare (True as 1), and a
\* str among the IDs makes max or the addition raise TypeError
next_id(data) ==
    IF data = <<>> THEN [err |-> "none", new_id |-> 1]
    ELSE IF \E i \in 1..Len(data) : ~IsNumber(data[i][t_ID])
    THEN [err |-> "TypeError", new_id |-> 0]
    ELSE [err |-> "none",
          new_id |-> 1 + CHOOSE m \in {Num(data[i][t_ID]) : i \in 1..Len(data)} :
                           \A i \in 1..Len(data) : Num(data[i][t_ID]) <= m]

\* the loop that fills the record, keeping the raw text of a value that cannot
\* be parsed instead of raising
RECURSIVE build_record_lenient(_, _, _, _)
build_record_lenient(user_columns, values, i, record) ==
    IF i > Len(user_columns) THEN [err |-> "none", record |-> record]
    ELSE LET p == parse_value(values[i], user_columns[i].type)
         IN  build_record_lenient(user_columns, values, i + 1,
                 SetField(record, user_columns[i].name,
                          IF p.err # "none" THEN StrV(values[i]) ELSE p.value))

\* the loop that fills the record: the first value that cannot be parsed raises
RECURSIVE build_record(_, _, _, _)
build_record(user_columns, values, i, record) ==
    IF i > Len(user_columns) THEN [err |-> "none", record |-> record]
    ELSE LET p == parse_value(values[i], user_columns[i].type)
         IN  IF p.err # "none" THEN [err |-> "ColumnError", record |-> record]
             ELSE build_record(user_columns, values, i + 1,
                               SetField(record, user_columns[i].name, p.value))

\* [record] + data instead of data.append(record)
prepend_record(data, record) == <<record>> \o data

\* data.append(record)
add_record(data, record) == Append(data, record)

user_columns_of(columns) == SelectSeq(columns, LAMBDA col : col.name # t_ID)

insert_into(md, st, table_name, values) ==
    IF table_name \notin DOMAIN md
    THEN [err |-> "TableNotExists", storage |-> st, new_id |-> 0]
    ELSE LET user_columns == user_columns_of(md[table_name].columns)
             data == load_table_data(st, table_name)
             id == next_id(data)
             b == build_record(user_columns, values, 1,
                               [c \in {t_ID} |-> IntV(id.new_id)])
         IN  IF Len(values) # Len(user_columns)
             THEN [err |-> "ArityMismatch", storage |-> st, new_id |-> 0]
             ELSE IF id.err # "none"
             THEN [err |-> id.err, storage |-> st, new_id |-> 0]
             ELSE IF b.err # "none"
             THEN [err |-> b.err, storage |-> st, new_id |-> 0]
             ELSE [err |-> "none",
                   storage |-> save_table_data(st, table_name, add_record(data, b.record)),
                   new_id |-> id.new_id]

\* row = [record.get(col['name'], '') for col in columns]
row_of(record, columns) ==
    [i \in 1..Len(columns) |-> get_or_empty(record, columns[i].name)]

\* the output of select_from: nothing when no record is left, else one row per
\* record; PrettyTable refuses field names that are not unique (a ValueError)
show_rows(columns, data) ==
    IF data = <<>> THEN [err |-> "none", data |-> <<>>, rows |-> <<>>]
    ELSE IF \E i, j \in 1..Len(columns) : i # j /\ columns[i].name = columns[j].name
    THEN [err |-> "FieldNamesNotUnique", data |-> <<>>, rows |-> <<>>]
    ELSE [err |-> "none", data |-> data,
          rows |-> [i \in 1..Len(data) |-> row_of(data[i], columns)]]

\* select_from once the table is known: the filter, then the output
select_rows(columns, data, where_column, where_value) ==
    LET col_type == first_type(columns, where_column.v)
        p == parse_value(where_value.v, col_type)
        found == SelectSeq(data, LAMBDA record :
                               get_eq(record, where_column.v, p.value))
    IN  IF Truthy(where_column) /\ Truthy(where_value)
        THEN IF col_type = <<>>
             THEN [err |-> "ColumnNotExists", data |-> <<>>, rows |-> <<>>]
             ELSE IF p.err # "none"
             THEN [err |-> p.err, data |-> <<>>, rows |-> <<>>]
             ELSE show_rows(columns, found)
        ELSE show_rows(columns, data)

\* select_from that prints "no records" for a table that is not registered
select_from_silent(md, st, table_name, where_column, where_value) ==
    IF table_name \notin DOMAIN md
    THEN [err |-> "none", data |-> <<>>, rows |-> <<>>]
    ELSE select_rows(md[table_name].columns, load_table_data(st, table_name),
                     where_column, where_value)

select_from(md, st, table_name, where_column, where_value) ==
    IF table_name \notin DOMAIN md
    THEN [err |-> "TableNotExists", data |-> <<>>, rows |-> <<>>]
    ELSE select_rows(md[table_name].columns, load_table_data(st, table_name),
                     where_column, where_value)

\* the loop over the records without the test of the where column: every
\* record is assigned the new value
RECURSIVE update_loop_all(_, _, _, _, _)
update_loop_all(data, set_column, parsed_set_value, where_column, parsed_where_value) ==
    IF data = <<>> THEN [data |-> <<>>, updated_ids |-> <<>>]
    ELSE LET rest == update_loop_all(Tail(data), set_column, parsed_set_value,
                                     where_column, parsed_where_value)
             changed == SetField(Head(data), set_column, parsed_set_value)
         IN  [data |-> <<changed>> \o rest.data,
              updated_ids |-> <<changed[t_ID]>> \o rest.updated_ids]

\* the loop over the records: a record whose where column equals the value gets
\* the set column assigned, and its ID is read after the assignment
RECURSIVE update_loop(_, _, _, _, _)
update_loop(data, set_column, parsed_set_value, where_column, parsed_where_value) ==
    IF data = <<>> THEN [data |-> <<>>, updated_ids |-> <<>>]
    ELSE LET rest == update_loop(Tail(data), set_column, parsed_set_value,
                                 where_column, parsed_where_value)
             record == Head(data)
             changed == SetField(record, set_column, parsed_set_value)
         IN  IF get_eq(record, where_column, parsed_where_value)
             THEN [data |-> <<changed>> \o rest.data,
                   updated_ids |-> <<changed[t_ID]>> \o rest.updated_ids]
             ELSE [data |-> <<record>> \o rest.data, updated_ids |-> rest.updated_ids]

\* only the set column is looked up
update_columns_error_set_only(columns, set_column, where_column) ==
    IF last_type(columns, set_column) = <<>> THEN "ColumnNotExists" ELSE "none"

\* the two checks that a column type was found
update_columns_error(columns, set_column, where_column) ==
    IF last_type(columns, set_column) = <<>> THEN "ColumnNotExists"
    ELSE IF last_type(columns, where_column) = <<>> THEN "ColumnNotExists"
    ELSE "none"

update_table(md, st, table_name, set_column, set_value, where_column, where_value) ==
    IF table_name \notin DOMAIN md
    THEN [err |-> "TableNotExists", storage |-> st, ids |-> <<>>]
    ELSE LET columns == md[table_name].columns
             data == load_table_data(st, table_name)
             set_col_type == last_type(columns, set_column)
             where_col_type == last_type(columns, where_column)
             ps == parse_value(set_value, set_col_type)
             pw == parse_value(where_value, where_col_type)
             u == update_loop(data, set_column, ps.value, where_column, pw.value)
             ce == update_columns_error(columns, set_column, where_column)
         IN  IF ce # "none"
             THEN [err |-> ce, storage |-> st, ids |-> <<>>]
             ELSE IF ps.err # "none"
             THEN [err |-> ps.err, storage |-> st, ids |-> <<>>]
             ELSE IF pw.err # "none"
             THEN [err |-> pw.err, storage |-> st, ids |-> <<>>]
             ELSE IF u.updated_ids = <<>>
             THEN [err |-> "none", storage |-> st, ids |-> <<>>]
             ELSE [err |-> "none",
                   storage |-> save_table_data(st, table_name, u.data),
                   ids |-> u.updated_ids]

\* the loop over the records that stops looking after the first match
RECURSIVE delete_loop_first(_, _, _)
delete_loop_first(data, where_column, parsed_where_value) ==
    IF data = <<>> THEN [new_data |-> <<>>, deleted_ids |-> <<>>]
    ELSE IF get_eq(Head(data), where_column, parsed_where_value)
    THEN [new_data |-> Tail(data), deleted_ids |-> <<Head(data)[t_ID]>>]
    ELSE LET rest == delete_loop_first(Tail(data), where_column, parsed_where_value)
         IN  [new_data |-> <<Head(data)>> \o rest.new_data,
              deleted_ids |-> rest.deleted_ids]

\* the loop over the records: matching records give their ID, the others are kept
RECURSIVE delete_loop(_, _, _)
delete_loop(data, where_column, parsed_where_value) ==
    IF data = <<>> THEN [new_data |-> <<>>, deleted_ids |-> <<>>]
    ELSE LET rest == delete_loop(Tail(data), where_column, parsed_where_value)
             record == Head(data)
         IN  IF get_eq(record, where_column, parsed_where_value)
             THEN [new_data |-> rest.new_data,
                   deleted_ids |-> <<record[t_ID]>> \o rest.deleted_ids]
             ELSE [new_data |-> <<record>> \o rest.new_data,
                   deleted_ids |-> rest.deleted_ids]

\* the save is made also when nothing matched
delete_result_always_saves(st, table_name, d) ==
    [err |-> "none",
     storage |-> save_table_data(st, table_name, d.new_data),
     ids |-> d.deleted_ids]

\* nothing matched: return without saving; otherwise save the kept records
delete_result(st, table_name, d) ==
    IF d.deleted_ids = <<>>
    THEN [err |-> "none", storage |-> st, ids |-> <<>>]
    ELSE [err |-> "none",
          storage |-> save_table_data(st, table_name, d.new_data),
          ids |-> d.deleted_ids]

delete_from(md, st, table_name, where_column, where_value) ==
    IF table_name \notin DOMAIN md
    THEN [err |-> "TableNotExists", storage |-> st, ids |-> <<>>]
    ELSE LET columns == md[table_name].columns
             data == load_table_data(st, table_name)
             where_col_type == first_type(columns, where_column)
             pw == parse_value(where_value, where_col_type)
             d == delete_loop(data, where_column, pw.value)
         IN  IF where_col_type = <<>>
             THEN [err |-> "ColumnNotExists", storage |-> st, ids |-> <<>>]
             ELSE IF pw.err # "none"
             THEN [err |-> pw.err, storage |-> st, ids |-> <<>>]
             ELSE delete_result(st, table_name, d)

info_table(md, table_name) ==
    IF table_name \notin DOMAIN md
    THEN [err |-> "TableNotExists", columns |-> <<>>]
    ELSE [err |-> "none", columns |-> md[table_name].columns]

(***************************************************************************)
(* Inputs the operations are called with.                                  *)
(***************************************************************************)
TableNames == {"t", "u"}

\* the table the record operations are called on
DataTables == {"t"}

ColumnSpecs ==
    { <<t_x \o <<":">> \o t_int>>,
      <<t_x \o <<":">> \o t_str>>,
      <<t_x \o <<":">> \o t_bool>>,
      <<t_ID \o <<":">> \o t_str>>,
      <<t_x>>,
      <<t_x \o <<":">> \o t_float>>,
      <<t_x \o <<":">> \o t_int, t_y \o <<":">> \o t_float>>,
      <<t_x \o <<":">> \o t_str, t_y>> }

RawValues == { <<"1">>, <<>> }

InsertValues == {<<>>} \cup {<<v>> : v \in RawValues}

ColumnNames == {t_ID, t_x, t_y}

(***************************************************************************)
(* State.  res is what the last call was given and what it produced;       *)
(* last_id[t] is the largest ID an insert has assigned in table t so far.  *)
(***************************************************************************)
NoCall ==
    [op |-> "none", table |-> "", columns |-> <<>>, values |-> <<>>,
     set_column |-> <<>>, set_value |-> <<>>,
     where_column |-> None, where_value |-> None,
     value_str |-> <<>>, expected_type |-> <<>>, value |-> NoValue,
     err |-> "none", new_id |-> 0, ids |-> <<>>, data |-> <<>>, rows |-> <<>>]

Init ==
    /\ metadata = [n \in {} |-> <<>>]
    /\ storage = [n \in {} |-> <<>>]
    /\ last_id = [n \in TableNames |-> 0]
    /\ pc = "read"
    /\ schema_file = NoFile
    /\ log = <<>>
    /\ res = NoCall

CreateTable ==
    /\ res.op = "none"
    /\ \E table_name \in TableNames, columns \in ColumnSpecs :
        \E r \in {create_table(metadata, table_name, columns)} :
            /\ metadata' = r.metadata
            /\ res' = [NoCall EXCEPT !.op = "create_table", !.table = table_name,
                                     !.columns = columns, !.err = r.err]
            /\ UNCHANGED <<storage, last_id, pc, schema_file, log>>

DropTable ==
    /\ res.op = "none"
    /\ \E table_name \in TableNames :
        \E r \in {drop_table(metadata, table_name)} :
            /\ metadata' = r.metadata
            /\ res' = [NoCall EXCEPT !.op = "drop_table", !.table = table_name,
                                     !.err = r.err]
            /\ UNCHANGED <<storage, last_id, pc, schema_file, log>>

InsertInto ==
    /\ res.op = "none"
    /\ \E table_name \in DataTables, values \in InsertValues :
        \E r \in {insert_into(metadata, storage, table_name, values)} :
            /\ r.err = "none" =>
                   /\ Len(load_table_data(storage, table_name)) < MaxRecords
                   /\ r.new_id <= MaxId
            /\ storage' = r.storage
            /\ last_id' = IF r.err = "none" /\ r.new_id > last_id[table_name]
                          THEN [last_id EXCEPT ![table_name] = r.new_id]
                          ELSE last_id
            /\ res' = [NoCall EXCEPT !.op = "insert_into", !.table = table_name,
                                     !.values = values, !.err = r.err,
                                     !.new_id = r.new_id]
            /\ UNCHANGED <<metadata, pc, schema_file, log>>

SelectFrom ==
    /\ res.op = "none"
    /\ \E table_name \in DataTables,
       w \in {<<None, None>>} \cup
             {<<Some(c), Some(v)>> : c \in ColumnNames, v \in RawValues} :
        \E r \in {select_from(metadata, storage, table_name, w[1], w[2])} :
            /\ res' = [NoCall EXCEPT !.op = "select_from", !.table = table_name,
                                     !.where_column = w[1], !.where_value = w[2],
                                     !.err = r.err, !.data = r.data, !.rows = r.rows]
            /\ UNCHANGED <<metadata, storage, last_id, pc, schema_file, log>>

UpdateTable ==
    /\ res.op = "none"
    /\ \E table_name \in DataTables, set_column \in ColumnNames, set_value \in RawValues,
       where_column \in ColumnNames, where_value \in RawValues :
        \E r \in {update_table(metadata, storage, table_name, set_column, set_value,
                              where_column, where_value)} :
            /\ storage' = r.storage
            /\ res' = [NoCall EXCEPT !.op = "update_table", !.table = table_name,
                                     !.set_column = set_column, !.set_value = set_value,
                                     !.where_column = Some(where_column),
                                     !.where_value = Some(where_value),
                                     !.err = r.err, !.ids = r.ids]
            /\ UNCHANGED <<metadata, last_id, pc, schema_file, log>>

DeleteFrom ==
    /\ res.op = "none"
    /\ \E table_name \in DataTables, where_column \in ColumnNames,
       where_value \in RawValues :
        \E r \in {delete_from(metadata, storage, table_name, where_column, where_value)} :
            /\ storage' = r.storage
            /\ res' = [NoCall EXCEPT !.op = "delete_from", !.table = table_name,
                                     !.where_column = Some(where_column),
                                     !.where_value = Some(where_value),
                                     !.err = r.err, !.ids = r.ids]
            /\ UNCHANGED <<metadata, last_id, pc, schema_file, log>>

InfoTable ==
    /\ res.op = "none"
    /\ \E table_name \in TableNames :
        \E r \in {info_table(metadata, table_name)} :
            /\ res' = [NoCall EXCEPT !.op = "info_table", !.table = table_name,
                                     !.err = r.err, !.columns = r.columns]
            /\ UNCHANGED <<metadata, storage, last_id, pc, schema_file, log>>

\* the loop goes on to read the next command: the outcome shown is gone
NextCommand ==
    /\ pc = "read"
    /\ res.op # "none"
    /\ res' = NoCall
    /\ UNCHANGED <<metadata, storage, last_id, pc, schema_file, log>>

Next ==
    \/ CreateTable
    \/ DropTable
    \/ InsertInto
    \/ SelectFrom
    \/ UpdateTable
    \/ DeleteFrom
    \/ InfoTable
    \/ NextCommand

Spec == Init /\ [][Next]_vars

\* the calls of a session that only creates the table, inserts and deletes
NextInsertDelete ==
    \/ CreateTable
    \/ InsertInto
    \/ DeleteFrom
    \/ NextCommand

SpecInsertDelete == Init /\ [][NextInsertDelete]_vars

(***************************************************************************)
(* engine.py: the command loop.  A line is what the loop's tests and the   *)
(* handlers' regular expressions take from the command that was read: the  *)
(* verb the dispatch recognises, whether the handler's expression matched, *)
(* and the groups it captured (for create_table and drop_table the words   *)
(* of command.split()).  schema_file is db_meta.json; pc is "read" while   *)
(* the loop runs and "done" once it has been left.                         *)
(***************************************************************************)
NoLine ==
    [verb |-> "", matched |-> TRUE, table_name |-> "", columns |-> <<>>,
     values_str |-> <<>>, set_column |-> <<>>, set_value |-> <<>>,
     where_column |-> None, where_value |-> None]

\* what running a line leaves behind and prints
NoOut(md, st, file) ==
    [err |-> "none", metadata |-> md, storage |-> st, schema_file |-> file,
     values |-> <<>>, where_value |-> None, columns |-> <<>>,
     new_id |-> 0, ids |-> <<>>, data |-> <<>>, rows |-> <<>>]

\* the text taken whole, as if it held no separator
split_none(s, sep) == <<s>>

\* str.split(sep)
RECURSIVE split(_, _)
split(s, sep) ==
    LET i == find(s, sep, 1)
    IN  IF i = 0 THEN <<s>>
        ELSE <<SubSeq(s, 1, i - 1)>> \o split(SubSeq(s, i + 1, Len(s)), sep)

\* where_value.strip() of an optional text
strip_some(o) == IF o.some THEN Some(strip(o.v, Whitespace)) ELSE o

handle_insert(md, st, file, line) ==
    IF ~line.matched THEN [NoOut(md, st, file) EXCEPT !.err = "Syntax"]
    ELSE LET parts == split(line.values_str, ",")
             values == [i \in 1..Len(parts) |-> strip(parts[i], Whitespace)]
             r == insert_into(md, st, line.table_name, values)
         IN  [NoOut(md, st, file) EXCEPT !.err = r.err, !.storage = r.storage,
                                         !.new_id = r.new_id, !.values = values]

handle_select(md, st, file, line) ==
    IF ~line.matched THEN [NoOut(md, st, file) EXCEPT !.err = "Syntax"]
    ELSE LET where_value == IF Truthy(line.where_column) /\ Truthy(line.where_value)
                            THEN strip_some(line.where_value)
                            ELSE line.where_value
             r == select_from(md, st, line.table_name, line.where_column, where_value)
         IN  [NoOut(md, st, file) EXCEPT !.err = r.err, !.data = r.data,
                                         !.rows = r.rows, !.where_value = where_value]

handle_update(md, st, file, line) ==
    IF ~line.matched THEN [NoOut(md, st, file) EXCEPT !.err = "Syntax"]
    ELSE LET where_value == strip_some(line.where_value)
             r == update_table(md, st, line.table_name,
                               line.set_column, strip(line.set_value, Whitespace),
                               line.where_column.v, where_value.v)
         IN  [NoOut(md, st, file) EXCEPT !.err = r.err, !.storage = r.storage,
                                         !.ids = r.ids, !.where_value = where_value]

handle_delete(md, st, file, line) ==
    IF ~line.matched THEN [NoOut(md, st, file) EXCEPT !.err = "Syntax"]
    ELSE LET where_value == strip_some(line.where_value)
             r == delete_from(md, st, line.table_name, line.where_column.v,
                              where_value.v)
         IN  [NoOut(md, st, file) EXCEPT !.err = r.err, !.storage = r.storage,
                                         !.ids = r.ids, !.where_value = where_value]

handle_info(md, st, file, line) ==
    IF ~line.matched THEN [NoOut(md, st, file) EXCEPT !.err = "Syntax"]
    ELSE LET r == info_table(md, line.table_name)
         IN  [NoOut(md, st, file) EXCEPT !.err = r.err, !.columns = r.columns]

\* len(command.split()): the verb, the table name if there is one, the rest
parts_len(line) ==
    1 + (IF line.table_name = "" THEN 0 ELSE 1) + Len(line.columns)

\* the create_table branch of run: the registry is saved after the core call
run_create_table(md, st, file, line) ==
    IF parts_len(line) < 3 THEN [NoOut(md, st, file) EXCEPT !.err = "Syntax"]
    ELSE LET r == create_table(md, line.table_name, line.columns)
         IN  IF r.err # "none" THEN [NoOut(md, st, file) EXCEPT !.err = r.err]
             ELSE [NoOut(md, st, file) EXCEPT
                       !.metadata = r.metadata,
                       !.schema_file = save_metadata(file, r.metadata)]

\* the drop_table branch of run
run_drop_table(md, st, file, line) ==
    IF parts_len(line) # 2 THEN [NoOut(md, st, file) EXCEPT !.err = "Syntax"]
    ELSE LET r == drop_table(md, line.table_name)
         IN  IF r.err # "none" THEN [NoOut(md, st, file) EXCEPT !.err = r.err]
             ELSE [NoOut(md, st, file) EXCEPT
                       !.metadata = r.metadata,
                       !.schema_file = save_metadata(file, r.metadata)]

\* the exit branch of run: the registry is saved and the loop is left
run_exit(md, st, file, line) ==
    [NoOut(md, st, file) EXCEPT !.schema_file = save_metadata(file, md)]

\* help and list_tables print; anything else is an unknown command
run_other(md, st, file, line) ==
    IF line.verb \in {"help", "list_tables"} THEN NoOut(md, st, file)
    ELSE [NoOut(md, st, file) EXCEPT !.err = "UnknownCommand"]

\* the dispatch of run on a line that is not empty
run_line(md, st, file, line) ==
    CASE line.verb = "exit" -> run_exit(md, st, file, line)
      [] line.verb = "insert_into" -> handle_insert(md, st, file, line)
      [] line.verb = "select_from" -> handle_select(md, st, file, line)
      [] line.verb = "update_table" -> handle_update(md, st, file, line)
      [] line.verb = "delete_from" -> handle_delete(md, st, file, line)
      [] line.verb = "info_table" -> handle_info(md, st, file, line)
      [] line.verb = "create_table" -> run_create_table(md, st, file, line)
      [] line.verb = "drop_table" -> run_drop_table(md, st, file, line)
      [] OTHER -> run_other(md, st, file, line)

\* a loop that a failed command ends
after_line_raising(verb, err) ==
    IF verb = "exit" \/ err # "none" THEN "done" ELSE "read"

\* where the loop is after a line: break on exit; continue, the end of the
\* try block and the except clauses all lead to the next input()
after_line(verb, err) == IF verb = "exit" THEN "done" ELSE "read"


\* the lines the loop is given
LoopValues == { <<"1">>, <<"a">> }

LoopColumnNames == {t_x, t_y}

CreateLines ==
    {[NoLine EXCEPT !.verb = "create_table", !.table_name = n, !.columns = c] :
         n \in TableNames, c \in ColumnSpecs \cup {<<>>}}

DropLines ==
    {[NoLine EXCEPT !.verb = "drop_table", !.table_name = n] :
         n \in TableNames \cup {""}}

InsertLines ==
    {[NoLine EXCEPT !.verb = "insert_into", !.matched = FALSE]}
    \cup {[NoLine EXCEPT !.verb = "insert_into", !.table_name = n, !.values_str = v] :
              n \in DataTables,
              v \in {<<>>, <<"1">>, <<"a">>, <<"1", ",", " ", "1">>}}

SelectLines ==
    {[NoLine EXCEPT !.verb = "select_from", !.matched = FALSE]}
    \cup {[NoLine EXCEPT !.verb = "select_from", !.table_name = n] : n \in DataTables}
    \cup {[NoLine EXCEPT !.verb = "select_from", !.table_name = n,
                         !.where_column = Some(c), !.where_value = Some(v)] :
              n \in DataTables, c \in LoopColumnNames, v \in LoopValues}

UpdateLines ==
    {[NoLine EXCEPT !.verb = "update_table", !.matched = FALSE]}
    \cup {[NoLine EXCEPT !.verb = "update_table", !.table_name = n,
                         !.set_column = sc, !.set_value = sv,
                         !.where_column = Some(c), !.where_value = Some(v)] :
              n \in DataTables, sc \in LoopColumnNames, sv \in LoopValues,
              c \in LoopColumnNames, v \in LoopValues}

DeleteLines ==
    {[NoLine EXCEPT !.verb = "delete_from", !.matched = FALSE]}
    \cup {[NoLine EXCEPT !.verb = "delete_from", !.table_name = n,
                         !.where_column = Some(c), !.where_value = Some(v)] :
              n \in DataTables, c \in LoopColumnNames, v \in LoopValues}

InfoLines ==
    {[NoLine EXCEPT !.verb = "info_table", !.matched = FALSE]}
    \cup {[NoLine EXCEPT !.verb = "info_table", !.table_name = n] : n \in TableNames}

OtherLines ==
    {[NoLine EXCEPT !.verb = v] : v \in {"help", "list_tables", "unknown"}}

\* one pass of the loop on a line that left out behind: the try block with its
\* except clauses.  res is what this pass printed; in the loop below the
\* outcome of one pass is cleared (NextCommand) before the next line is read.
Pass(line, out) ==
    /\ pc = "read"
    /\ \E r \in {out} :
           /\ (line.verb = "insert_into" /\ r.err = "none") =>
                   /\ Len(load_table_data(storage, line.table_name)) < MaxRecords
                   /\ r.new_id <= MaxId
           /\ metadata' = r.metadata
           /\ storage' = r.storage
           /\ schema_file' = r.schema_file
           /\ last_id' = IF /\ line.verb = "insert_into"
                            /\ r.err = "none"
                            /\ r.new_id > last_id[line.table_name]
                         THEN [last_id EXCEPT ![line.table_name] = r.new_id]
                         ELSE last_id
           /\ pc' = after_line(line.verb, r.err)
           /\ res' = [NoCall EXCEPT
                         !.op = line.verb, !.table = line.table_name,
                         !.columns = IF line.verb = "info_table" THEN r.columns
                                     ELSE line.columns,
                         !.values = r.values,
                         !.set_column = line.set_column, !.set_value = line.set_value,
                         !.where_column = line.where_column,
                         !.where_value = r.where_value,
                         !.err = r.err, !.new_id = r.new_id, !.ids = r.ids,
                         !.data = r.data, !.rows = r.rows]

RunCreateTable ==
    /\ res.op = "none"
    /\ \E line \in CreateLines :
        /\ Pass(line, run_create_table(metadata, storage, schema_file, line))
        /\ UNCHANGED log

RunDropTable ==
    /\ res.op = "none"
    /\ \E line \in DropLines :
        /\ Pass(line, run_drop_table(metadata, storage, schema_file, line))
        /\ UNCHANGED log

RunInsert ==
    /\ res.op = "none"
    /\ \E line \in InsertLines :
        /\ Pass(line, handle_insert(metadata, storage, schema_file, line))
        /\ UNCHANGED log

RunSelect ==
    /\ res.op = "none"
    /\ \E line \in SelectLines :
        /\ Pass(line, handle_select(metadata, storage, schema_file, line))
        /\ UNCHANGED log

RunUpdate ==
    /\ res.op = "none"
    /\ \E line \in UpdateLines :
        /\ Pass(line, handle_update(metadata, storage, schema_file, line))
        /\ UNCHANGED log

RunDelete ==
    /\ res.op = "none"
    /\ \E line \in DeleteLines :
        /\ Pass(line, handle_delete(metadata, storage, schema_file, line))
        /\ UNCHANGED log

RunInfo ==
    /\ res.op = "none"
    /\ \E line \in InfoLines :
        /\ Pass(line, handle_info(metadata, storage, schema_file, line))
        /\ UNCHANGED log

RunOther ==
    /\ res.op = "none"
    /\ \E line \in OtherLines :
        /\ Pass(line, run_other(metadata, storage, schema_file, line))
        /\ UNCHANGED log

RunExit ==
    /\ res.op = "none"
    /\ \E line \in {[NoLine EXCEPT !.verb = "exit"]} :
        /\ Pass(line, run_exit(metadata, storage, schema_file, line))
        /\ UNCHANGED log

\* Ctrl-C while input() waits: the except clause prints and the loop goes on
RunInterrupt ==
    /\ pc = "read"
    /\ res.op = "none"
    /\ res' = [NoCall EXCEPT !.op = "interrupt", !.err = "KeyboardInterrupt"]
    /\ pc' = after_line("interrupt", "KeyboardInterrupt")
    /\ UNCHANGED <<metadata, storage, last_id, schema_file, log>>

NextLoop ==
    \/ RunCreateTable
    \/ RunDropTable
    \/ RunInsert
    \/ RunSelect
    \/ RunUpdate
    \/ RunDelete
    \/ RunInfo
    \/ RunOther
    \/ RunExit
    \/ RunInterrupt
    \/ NextCommand

SpecLoop == Init /\ [][NextLoop]_vars


(***************************************************************************)
(* A session on the table users: the loop is given, in any order, the six  *)
(* commands                                                                *)
(*   create_table users name:str age:int active:bool                       *)
(*   insert into users values ("Ann", 30, true)                            *)
(*   select from users where active = true                                 *)
(*   update users set age = 31 where name = "Ann"                          *)
(*   delete from users where age = 31                                      *)
(*   select from users                                                     *)
(* and log keeps the number of each line that was run with what it         *)
(* printed.                                                                *)
(***************************************************************************)
t_name == <<"n", "a", "m", "e">>
t_age == <<"a", "g", "e">>
t_active == <<"a", "c", "t", "i", "v", "e">>
t_Ann == <<"A", "n", "n">>
t_true == <<"t", "r", "u", "e">>

Script ==
    << [NoLine EXCEPT !.verb = "create_table", !.table_name = "users",
                      !.columns = << t_name \o <<":">> \o t_str,
                                     t_age \o <<":">> \o t_int,
                                     t_active \o <<":">> \o t_bool >>],
       [NoLine EXCEPT !.verb = "insert_into", !.table_name = "users",
                      !.values_str = <<"\"">> \o t_Ann \o <<"\"", ",", " ", "3", "0",
                                                            ",", " ">> \o t_true],
       [NoLine EXCEPT !.verb = "select_from", !.table_name = "users",
                      !.where_column = Some(t_active), !.where_value = Some(t_true)],
       [NoLine EXCEPT !.verb = "update_table", !.table_name = "users",
                      !.set_column = t_age, !.set_value = <<"3", "1">>,
                      !.where_column = Some(t_name),
                      !.where_value = Some(<<"\"">> \o t_Ann \o <<"\"">>)],
       [NoLine EXCEPT !.verb = "delete_from", !.table_name = "users",
                      !.where_column = Some(t_age),
                      !.where_value = Some(<<"3", "1">>)],
       [NoLine EXCEPT !.verb = "select_from", !.table_name = "users"] >>

InitSession ==
    /\ metadata = [n \in {} |-> <<>>]
    /\ storage = [n \in {} |-> <<>>]
    /\ last_id = [n \in {"users"} |-> 0]
    /\ pc = "read"
    /\ schema_file = NoFile
    /\ log = <<>>
    /\ res = NoCall

RunSessionLine ==
    /\ Len(log) < MaxCommands
    /\ \E k \in 1..Len(Script) :
        /\ Pass(Script[k], run_line(metadata, storage, schema_file, Script[k]))
        /\ log' = Append(log, [line |-> k, err |-> res'.err,
                               new_id |-> res'.new_id, ids |-> res'.ids,
                               rows |-> res'.rows])

NextSession == RunSessionLine

SpecSession == InitSession /\ [][NextSession]_vars


(***************************************************************************)
(* parse_value on its own: the texts are words with blanks and quotes      *)
(* around them, the call is made once on the text and type drawn at the    *)
(* start.                                                                  *)
(***************************************************************************)
WrapChars == {" ", "\"", "'"}

Wraps == UNION {[1..k -> WrapChars] : k \in 0..MaxWrap}

ParseWords ==
    { <<>>, <<"a">>, <<"a", "\"", "b">>, <<"a", " ", "b">>, <<"2">>,
      <<"t", "r", "u">>, <<"o", "n">>,
      <<"t", "r", "u", "e">>, <<"T", "R", "U", "E">>, <<"1">>, <<"Y", "e", "s">>,
      <<"CYR_D", "cyr_a">>,
      <<"cyr_i", "cyr_s", "cyr_t", "cyr_i", "cyr_n", "cyr_a">>,
      <<"f", "a", "l", "s", "e">>, <<"F", "a", "l", "s", "E">>, <<"0">>,
      <<"N", "O">>, <<"cyr_n", "CYR_E", "cyr_t">>,
      <<"cyr_l", "cyr_o", "cyr_zh", "cyr_soft">> }

ParseTexts == {p \o w \o s : p \in Wraps, w \in ParseWords, s \in Wraps}

ParseTypes == {t_int, t_str, t_bool, t_float}

InitParse ==
    /\ metadata = [n \in {} |-> <<>>]
    /\ storage = [n \in {} |-> <<>>]
    /\ last_id = [n \in TableNames |-> 0]
    /\ pc = "read"
    /\ schema_file = NoFile
    /\ log = <<>>
    /\ res \in {[NoCall EXCEPT !.value_str = value_str,
                               !.expected_type = expected_type] :
                    value_str \in ParseTexts, expected_type \in ParseTypes}

ParseValue ==
    /\ res.op = "none"
    /\ LET r == parse_value(res.value_str, res.expected_type)
       IN  res' = [res EXCEPT !.op = "parse_value", !.err = r.err, !.value = r.value]
    /\ UNCHANGED <<metadata, storage, last_id, pc, schema_file, log>>

NextParse == ParseValue

SpecParse == InitParse /\ [][NextParse]_vars


(***************************************************************************)
(* Properties.                                                             *)
(***************************************************************************)
Called(op) == res.op = op
Succeeded(op) == res.op = op /\ res.err = "none"

\* the columns of the definition that carry the given name
NamedColumns(columns, name) == {i \in 1..Len(columns) : columns[i].name = name}

HasColumn(columns, name) == NamedColumns(columns, name) # {}

DistinctNames(columns) ==
    \A i, j \in 1..Len(columns) : columns[i].name = columns[j].name => i = j

\* C1: after a successful create_table the new definition starts with the column
\* ID of type int and holds exactly one column named ID, whatever the user's specs.
C1_IdColumnFirstAndOnce ==
    Succeeded("create_table") =>
        LET columns == metadata[res.table].columns
        IN  /\ columns[1] = ID_COLUMN
            /\ Cardinality(NamedColumns(columns, t_ID)) = 1

\* C2: every successful insert is given an ID strictly greater than every ID an
\* earlier insert into the same table was given (a deleted ID included).
C2_InsertedIdsIncrease ==
    [][(res'.op = "insert_into" /\ res'.err = "none")
          => res'.new_id > last_id[res'.table]]_vars

\* C3: no two records of one record set carry the same ID.
C3_IdsUnique ==
    \A n \in DOMAIN storage :
        \A i, j \in 1..Len(storage[n]) :
            storage[n][i][t_ID] = storage[n][j][t_ID] => i = j

\* C4: create_table with a name that is already registered fails with the
\* duplicate-table error and leaves the whole registry as it was.
C4_DuplicateTableRejected ==
    [][(res'.op = "create_table" /\ res'.table \in DOMAIN metadata)
          => (res'.err = "TableExists" /\ metadata' = metadata)]_vars

\* C4 happens: a duplicate create was refused while another table is registered
C4_Witness ==
    /\ Called("create_table")
    /\ res.err = "TableExists"
    /\ DOMAIN metadata = TableNames

\* every column of that name has a type the text can be coerced to
Coercible(columns, name, text) ==
    \A i \in NamedColumns(columns, name) :
        parse_value(text, columns[i].type).err = "none"

\* no record's value under the column equals the coerced text
NoMatch(columns, data, name, text) ==
    \A i \in NamedColumns(columns, name) : \A k \in 1..Len(data) :
        ~get_eq(data[k], name, parse_value(text, columns[i].type).value)

\* C5: update_table naming a set column or a where column that the schema does
\* not have fails with the unknown-column error and leaves the stored records
\* as they were.
C5_UnknownColumnUpdateChangesNothing ==
    [][(/\ res'.op = "update_table"
        /\ res'.table \in DOMAIN metadata
        /\ \/ ~HasColumn(metadata[res'.table].columns, res'.set_column)
           \/ ~HasColumn(metadata[res'.table].columns, res'.where_column.v))
          => (res'.err = "ColumnNotExists" /\ storage' = storage)]_vars

\* C5 happens: the refused set column is a key of a stored record, though the
\* schema no longer has it
C5_Witness ==
    /\ Called("update_table")
    /\ res.err = "ColumnNotExists"
    /\ res.table \in DOMAIN storage
    /\ \E k \in 1..Len(storage[res.table]) :
           res.set_column \in DOMAIN storage[res.table][k]

\* C6: after a delete_from that succeeded, select_from with the same table,
\* column and value text returns no record.
C6_SelectAfterDeleteIsEmpty ==
    Succeeded("delete_from") =>
        LET sel == select_from(metadata, storage, res.table,
                               res.where_column, res.where_value)
        IN  sel.err = "none" /\ sel.data = <<>> /\ sel.rows = <<>>

\* C7: for a table with pairwise distinct column names, after a successful
\* insert of the raw values v, select without predicate returns the records
\* stored before, in their order, then one record with the assigned ID and, per
\* user column, the coercion of the value of v at the same position.
C7_InsertThenSelectAll ==
    [][(/\ res'.op = "insert_into"
        /\ res'.err = "none"
        /\ DistinctNames(metadata[res'.table].columns))
          => LET columns == metadata[res'.table].columns
                 user_columns == user_columns_of(columns)
                 before == load_table_data(storage, res'.table)
                 sel == select_from(metadata', storage', res'.table, None, None)
                 new == sel.data[Len(sel.data)]
             IN  /\ sel.err = "none"
                 /\ Len(sel.data) = Len(before) + 1
                 /\ SubSeq(sel.data, 1, Len(before)) = before
                 /\ DOMAIN new = {columns[i].name : i \in 1..Len(columns)}
                 /\ new[t_ID] = IntV(res'.new_id)
                 /\ \A i \in 1..Len(user_columns) :
                        new[user_columns[i].name] =
                            parse_value(res'.values[i], user_columns[i].type).value
                 /\ Len(sel.rows) = Len(sel.data)
                 /\ \A k \in 1..Len(before) : sel.rows[k] = row_of(before[k], columns)
                 /\ sel.rows[Len(sel.rows)] =
                        <<IntV(res'.new_id)>> \o
                        [i \in 1..Len(user_columns) |->
                            parse_value(res'.values[i], user_columns[i].type).value]
     ]_vars

\* C7 happens: a second record was inserted behind a stored one
C7_Witness ==
    /\ Succeeded("insert_into")
    /\ DistinctNames(metadata[res.table].columns)
    /\ Len(res.values) = 1
    /\ Len(storage[res.table]) = 2

\* C8: select_from with a predicate returns exactly the stored records whose
\* value under the column has the column's declared type and equals the coerced
\* filter value, in stored order.
C8_SelectIsTypedEquality ==
    (/\ Succeeded("select_from")
     /\ Truthy(res.where_column)
     /\ Truthy(res.where_value))
        => LET column == res.where_column.v
               col_type == first_type(metadata[res.table].columns, column)
               wanted == parse_value(res.where_value.v, col_type).value
           IN  res.data =
                   SelectSeq(load_table_data(storage, res.table), LAMBDA record :
                       /\ column \in DOMAIN record
                       /\ HasType(record[column], col_type)
                       /\ record[column] = wanted)

RecordCalls == {"insert_into", "select_from", "update_table", "delete_from"}

\* C9: the record operations and info_table on a table that is not registered
\* fail with the unknown-table error and change neither the registry nor any
\* record document; a select on a registered table that finds no record ends
\* without error and with an empty result.
C9_UnknownTableIsAnErrorEmptyResultIsNot ==
    [][/\ (res'.op \in RecordCalls \cup {"info_table"}
            /\ res'.table \notin DOMAIN metadata)
              => (/\ res'.err = "TableNotExists"
                  /\ metadata' = metadata
                  /\ storage' = storage)
       /\ (/\ res'.op = "select_from"
           /\ res'.table \in DOMAIN metadata
           /\ LET columns == metadata[res'.table].columns
                  data == load_table_data(storage, res'.table)
              IN  IF Truthy(res'.where_column) /\ Truthy(res'.where_value)
                  THEN /\ HasColumn(columns, res'.where_column.v)
                       /\ Coercible(columns, res'.where_column.v, res'.where_value.v)
                       /\ NoMatch(columns, data, res'.where_column.v,
                                  res'.where_value.v)
                  ELSE data = <<>>)
              => (res'.err = "none" /\ res'.data = <<>> /\ res'.rows = <<>>)
     ]_vars

\* C9 happens: a record operation was refused for a dropped table whose record
\* document still holds records
C9_Witness ==
    /\ res.op \in RecordCalls
    /\ res.err = "TableNotExists"
    /\ res.table \in DOMAIN storage
    /\ storage[res.table] # <<>>

\* C10: update_table and delete_from on a registered table, with columns the
\* schema has and values that can be coerced, whose predicate matches no stored
\* record end without error, report no ID and leave the record documents as
\* they were.
C10_NoMatchChangesNothing ==
    [][(/\ res'.op \in {"update_table", "delete_from"}
        /\ res'.table \in DOMAIN metadata
        /\ LET columns == metadata[res'.table].columns
               data == load_table_data(storage, res'.table)
           IN  /\ HasColumn(columns, res'.where_column.v)
               /\ Coercible(columns, res'.where_column.v, res'.where_value.v)
               /\ NoMatch(columns, data, res'.where_column.v, res'.where_value.v)
               /\ res'.op = "update_table" =>
                      /\ HasColumn(columns, res'.set_column)
                      /\ Coercible(columns, res'.set_column, res'.set_value))
          => (res'.err = "none" /\ res'.ids = <<>> /\ storage' = storage)]_vars

\* C10 happens: an update or delete found no match among stored records
C10_Witness ==
    /\ res.op \in {"update_table", "delete_from"}
    /\ res.err = "none"
    /\ res.ids = <<>>
    /\ res.table \in DOMAIN storage
    /\ storage[res.table] # <<>>

\* C11: insert_into, select_from, update_table, delete_from and info_table
\* leave the registry as it was; create_table and drop_table leave every record
\* document as it was; a successful drop_table removes the named entry from the
\* registry and nothing else, the dropped table's records staying in storage.
C11_OwnershipFrame ==
    [][/\ res'.op \in RecordCalls \cup {"info_table"} => metadata' = metadata
       /\ res'.op \in {"create_table", "drop_table"} => storage' = storage
       /\ (res'.op = "drop_table" /\ res'.err = "none")
              => /\ DOMAIN metadata' = DOMAIN metadata \ {res'.table}
                 /\ \A n \in DOMAIN metadata' : metadata'[n] = metadata[n]
     ]_vars

\* C11 happens: a table that holds records was dropped while another table is
\* registered, and its record document is still there
C11_Witness ==
    /\ Succeeded("drop_table")
    /\ DOMAIN metadata # {}
    /\ res.table \in DOMAIN storage
    /\ storage[res.table] # <<>>

\* C17: an insert_into on a registered table that is given a number of values
\* other than the number of non-ID columns, or a value that cannot be coerced
\* to its column's type, fails, leaves every record document as it was and
\* uses up no ID: the ID the next insert computes is the one this insert
\* computed.
C17_FailedInsertChangesNothing ==
    [][(/\ res'.op = "insert_into"
        /\ res'.table \in DOMAIN metadata
        /\ LET user_columns == user_columns_of(metadata[res'.table].columns)
           IN  \/ Len(res'.values) # Len(user_columns)
               \/ \E i \in 1..Len(user_columns) :
                      parse_value(res'.values[i], user_columns[i].type).err # "none")
          => (/\ res'.err # "none"
              /\ storage' = storage
              /\ next_id(load_table_data(storage', res'.table))
                     = next_id(load_table_data(storage, res'.table)))]_vars

\* C17 happens: an insert into a table that holds a record was refused for a
\* value that cannot be coerced
C17_Witness ==
    /\ Called("insert_into")
    /\ res.err = "ColumnError"
    /\ res.table \in DOMAIN metadata
    /\ Len(load_table_data(storage, res.table)) = 1

\* the positions of data, in stored order, whose record has value under name
MatchingPositions(data, name, value) ==
    SelectSeq([k \in 1..Len(data) |-> k], LAMBDA k : get_eq(data[k], name, value))

\* C18: after a successful update_table, with the filter and the new value
\* coerced to a declared type of their columns, the record document has the
\* same number of records in the same order; a record that did not match the
\* filter before the update is as it was; a record that matched has the new
\* value in the set column and every other field as it was; the reported IDs
\* are the IDs of the matching records, one per record in stored order (the IDs
\* they carry once updated, which are the IDs they had unless the set column
\* is ID); no other record document changes.
C18_UpdateFrame ==
    [][(res'.op = "update_table" /\ res'.err = "none")
          => LET table_name == res'.table
                 columns == metadata[table_name].columns
                 data == load_table_data(storage, table_name)
                 updated == load_table_data(storage', table_name)
                 set_column == res'.set_column
                 where_column == res'.where_column.v
             IN  \E i \in NamedColumns(columns, where_column),
                    j \in NamedColumns(columns, set_column) :
                   LET wv == parse_value(res'.where_value.v, columns[i].type).value
                       sv == parse_value(res'.set_value, columns[j].type).value
                       hit == MatchingPositions(data, where_column, wv)
                   IN  /\ Len(updated) = Len(data)
                       /\ \A k \in 1..Len(data) :
                            IF get_eq(data[k], where_column, wv)
                            THEN /\ DOMAIN updated[k] = DOMAIN data[k] \cup {set_column}
                                 /\ updated[k][set_column] = sv
                                 /\ \A c \in DOMAIN data[k] \ {set_column} :
                                        updated[k][c] = data[k][c]
                            ELSE updated[k] = data[k]
                       /\ res'.ids = [m \in 1..Len(hit) |-> updated[hit[m]][t_ID]]
                       /\ set_column # t_ID =>
                              res'.ids = [m \in 1..Len(hit) |-> data[hit[m]][t_ID]]
                       /\ \A n \in (DOMAIN storage \cup DOMAIN storage') \ {table_name} :
                              /\ n \in DOMAIN storage /\ n \in DOMAIN storage'
                              /\ storage'[n] = storage[n]]_vars

\* C18 happens: of two stored records an update changed one, its set column
\* being its where column
C18_Witness ==
    /\ Succeeded("update_table")
    /\ res.set_column = res.where_column.v
    /\ Len(res.ids) = 1
    /\ Len(load_table_data(storage, res.table)) = 2

\* C19: after a successful delete_from, with the filter coerced to the declared
\* type of the where column, the records stored for the table are the records
\* stored before whose where-column value does not equal the filter value, in
\* the order they had and as they were, and the reported IDs are the IDs of
\* the records that equalled it, in stored order; no other record document
\* changes.
C19_DeleteKeepsTheRest ==
    [][(res'.op = "delete_from" /\ res'.err = "none")
          => LET table_name == res'.table
                 columns == metadata[table_name].columns
                 data == load_table_data(storage, table_name)
                 where_column == res'.where_column.v
             IN  \E i \in NamedColumns(columns, where_column) :
                   LET wv == parse_value(res'.where_value.v, columns[i].type).value
                       hit == MatchingPositions(data, where_column, wv)
                   IN  /\ load_table_data(storage', table_name)
                            = SelectSeq(data, LAMBDA record :
                                            ~get_eq(record, where_column, wv))
                       /\ res'.ids = [m \in 1..Len(hit) |-> data[hit[m]][t_ID]]
                       /\ \A n \in (DOMAIN storage \cup DOMAIN storage') \ {table_name} :
                              /\ n \in DOMAIN storage /\ n \in DOMAIN storage'
                              /\ storage'[n] = storage[n]]_vars

\* C19 happens: a delete removed the first of two stored records and kept the
\* second
C19_Witness ==
    /\ Succeeded("delete_from")
    /\ Len(res.ids) = 1
    /\ Len(load_table_data(storage, res.table)) = 1
    /\ Num(res.ids[1]) < Num(load_table_data(storage, res.table)[1][t_ID])

\* C20: every record stored for a registered table has the column names of the
\* table's current definition as its keys, each value of the type its column
\* declares.
C20_RecordsFitSchema ==
    \A n \in DOMAIN metadata \cap DOMAIN storage :
        LET columns == metadata[n].columns
        IN  \A k \in 1..Len(storage[n]) :
                /\ DOMAIN storage[n][k] = {columns[i].name : i \in 1..Len(columns)}
                /\ \A i \in 1..Len(columns) :
                       HasType(storage[n][k][columns[i].name], columns[i].type)

\* the text without one outer pair of quotes, when it begins and ends with the
\* same quote character
WithoutOuterPair(s) ==
    IF Len(s) >= 2 /\ s[1] = s[Len(s)] /\ s[1] \in {"\"", "'"}
    THEN SubSeq(s, 2, Len(s) - 1)
    ELSE s

\* C14: parse_value(text, 'str') succeeds and returns the text without its
\* surrounding whitespace and, when what remains begins and ends with the same
\* quote character, without that one outer pair; any other quote is kept.
C14_StrRemovesOneMatchingPair ==
    (Called("parse_value") /\ res.expected_type = t_str)
        => /\ res.err = "none"
           /\ res.value = StrV(WithoutOuterPair(strip(res.value_str, Whitespace)))

\* C15: parse_value(text, 'bool') returns true when the text, without its
\* surrounding whitespace and its one outer pair of matching quotes, is in
\* lower case one of the affirmative words, false when it is one of the
\* negative words, and fails with the cannot-convert error for any other text.
C15_BoolWords ==
    (Called("parse_value") /\ res.expected_type = t_bool)
        => LET word == lower(WithoutOuterPair(strip(res.value_str, Whitespace)))
           IN  IF word \in TRUE_WORDS
               THEN res.err = "none" /\ res.value = BoolV(TRUE)
               ELSE IF word \in FALSE_WORDS
               THEN res.err = "none" /\ res.value = BoolV(FALSE)
               ELSE res.err = "CannotConvert"

\* C12: while the loop is about to read a command, and once it has ended,
\* what load_metadata reads from the schema document is the registry the loop
\* holds.
C12_SchemaFileIsRegistry ==
    pc \in {"read", "done"} => load_metadata(schema_file) = metadata

\* C12 happens: a table was created and saved, a table was dropped and saved,
\* and the loop ended on exit with one table registered
C12_Witness ==
    /\ pc = "done"
    /\ res.op = "exit"
    /\ schema_file.exists
    /\ DOMAIN metadata = {"u"}
    /\ "t" \in DOMAIN storage

\* the failures a command can end in
Failures ==
    {"Syntax", "UnknownCommand", "TableNotExists", "ColumnNotExists",
     "ArityMismatch", "CannotConvert", "ColumnError", "TableExists",
     "BadColumnFormat", "InvalidType", "TypeError", "FieldNamesNotUnique",
     "KeyboardInterrupt"}

\* C13: the loop ends only in the pass that reads exit; a pass that ends in a
\* failure or is an interrupt leaves the loop reading the next command, with
\* the registry and the schema document it had before.
C13_OnlyExitEndsTheLoop ==
    [][/\ (pc = "read" /\ pc' # "read") => res'.op = "exit"
       /\ (res'.op # "none" /\ res'.err \in Failures)
              => /\ pc' = "read"
                 /\ metadata' = metadata
                 /\ schema_file' = schema_file
       /\ res'.op # "none" => (res'.err = "none" \/ res'.err \in Failures)
     ]_vars

\* C13 happens: with a table registered, a command failed and the loop is
\* still reading
C13_Witness ==
    /\ pc = "read"
    /\ res.err \in {"CannotConvert", "ColumnError", "ArityMismatch"}
    /\ metadata # <<>>

\* what the k-th command of the script is said to print
ScriptOutput(k, out) ==
    /\ out.err = "none"
    /\ k = 2 => out.new_id = 1
    /\ k = 3 => out.rows = << <<IntV(1), StrV(t_Ann), IntV(30), BoolV(TRUE)>> >>
    /\ k \in {4, 5} => out.ids = <<IntV(1)>>
    /\ k = 6 => out.rows = <<>>

\* C16: from an empty registry and no record document, as long as the commands
\* run so far are the script's commands in the script's order, the insert was
\* given ID 1, the select on active = true returned the one record of Ann, the
\* update reported ID 1, the delete reported ID 1 and the last select found
\* nothing.
C16_UsersSession ==
    \A k \in 1..Len(log) :
        (k <= Len(Script) /\ \A j \in 1..k : log[j].line = j)
            => ScriptOutput(k, log[k])

\* C16 happens: the six commands were run in the script's order
C16_Witness ==
    /\ Len(log) = Len(Script)
    /\ \A j \in 1..Len(Script) : log[j].line = j

\* the column spec has no ':', or what follows its first ':' is, without
\* surrounding whitespace, not one of int, str, bool
BadSpec(col) ==
    \/ \A k \in 1..Len(col) : col[k] # ":"
    \/ \E k \in 1..Len(col) :
          /\ col[k] = ":"
          /\ \A j \in 1..(k - 1) : col[j] # ":"
          /\ strip(SubSeq(col, k + 1, Len(col)), Whitespace) \notin {t_int, t_str, t_bool}

\* C21: after every call, every column of every registered table has a type
\* among int, str, bool; no insert_into, select_from, update_table or
\* delete_from ends in parse_value's unknown-type failure, and no value of an
\* insert is parsed against a type parse_value does not know; a create_table
\* given a spec without ':' or with another type fails and leaves the registry
\* as it was.
C21_TypesAlwaysValid ==
    [][/\ \A n \in DOMAIN metadata' :
              \A i \in 1..Len(metadata'[n].columns) :
                  metadata'[n].columns[i].type \in {t_int, t_str, t_bool}
       /\ res'.op \in RecordCalls => res'.err # "UnknownType"
       /\ (res'.op = "insert_into" /\ res'.table \in DOMAIN metadata)
              => LET user_columns == user_columns_of(metadata[res'.table].columns)
                 IN  \A i \in 1..Len(user_columns) :
                         i <= Len(res'.values) =>
                             parse_value(res'.values[i], user_columns[i].type).err
                                 # "UnknownType"
       /\ (res'.op = "create_table"
             /\ \E i \in 1..Len(res'.columns) : BadSpec(res'.columns[i]))
              => (res'.err # "none" /\ metadata' = metadata)
     ]_vars

\* C21 happens: with a table registered that holds a record, a create_table
\* whose second spec names another type was refused
C21_Witness ==
    /\ Called("create_table")
    /\ res.err = "InvalidType"
    /\ Len(res.columns) = 2
    /\ \E n \in DOMAIN metadata : n \in DOMAIN storage /\ storage[n] # <<>>

====
